---------------------------- MODULE Spec2Model ----------------------------
(***************************************************************************)
(* Model of the ephemeris time library: Duration (src/src/duration.rs) and *)
(* Instant (src/src/instant.rs).                                           *)
(*                                                                         *)
(* Both types store a signed 64-bit count of seconds and a u32 count of    *)
(* nanoseconds.  The model keeps the real width and the real unit          *)
(* constants.  A 64-bit value does not fit TLC's machine integers, so an   *)
(* i64 (and every exact intermediate of i64 arithmetic) is held as a sign  *)
(* and a magnitude of Limbs base-Base digits, least significant first.     *)
(* Nanosecond fields (below 10^9) are plain integers.                      *)
(*                                                                         *)
(* A `let v = e;` of the code is written                                   *)
(*     CHOOSE r \in {F(v) : v \in {e}} : TRUE                              *)
(* which is F(e), with e evaluated once before F is.                       *)
(***************************************************************************)
EXTENDS Integers, Sequences, FiniteSets

(***************************************************************************)
(* Exact integers: the values of Rust's i64 and of its exact results       *)
(* before the range check.  A magnitude is an 8-tuple of limbs below Base; *)
(* each operation gives every limb of its result by a closed formula       *)
(* (carry look-ahead), so no intermediate exceeds a machine integer.       *)
(***************************************************************************)
Base == 10 * 1000
Limbs == 4 + 4

MagZero == <<0, 0, 0, 0, 0, 0, 0, 0>>

\* the limbs f[1] .. f[8] as a magnitude
Mag(f) == <<f[1], f[2], f[3], f[4], f[5], f[6], f[7], f[8]>>

\* limb i of a sum whose limb-wise sums are s: a carry enters it when a limb
\* below overflows and every limb between passes the carry on
CarryLimb(s, i) ==
    IF \E j \in 1 .. (i - 1) :
          /\ s[j] >= Base
          /\ \A k \in (j + 1) .. (i - 1) : s[k] >= Base - 1
    THEN (s[i] + 1) % Base
    ELSE s[i] % Base

MagAdd(x, y) ==
    Mag([i \in 1 .. Limbs |->
           CarryLimb([k \in 1 .. Limbs |-> x[k] + y[k]], i)])

\* limb i of a difference whose limb-wise differences are t
BorrowLimb(t, i) ==
    IF \E j \in 1 .. (i - 1) :
          /\ t[j] < 0
          /\ \A k \in (j + 1) .. (i - 1) : t[k] <= 0
    THEN (t[i] - 1 + Base) % Base
    ELSE (t[i] + Base) % Base

\* x - y for x >= y
MagSub(x, y) ==
    Mag([i \in 1 .. Limbs |->
           BorrowLimb([k \in 1 .. Limbs |-> x[k] - y[k]], i)])

\* -1, 0, 1 as x <, =, > y: decided by the most significant differing limb
MagCmp(x, y) ==
    IF x = y THEN 0
    ELSE IF \E i \in 1 .. Limbs :
                /\ x[i] > y[i]
                /\ \A k \in (i + 1) .. Limbs : x[k] = y[k]
    THEN 1
    ELSE -1

\* the largest factor and divisor of the limb-wise operations
SmallMax == (2147483647 \div Base) - 1

\* x * Base
MagShift(x) == <<0, x[1], x[2], x[3], x[4], x[5], x[6], x[7]>>

\* x * k for 0 <= k <= SmallMax: each limb's product is spread over three limbs
MagMul(x, k) ==
    CHOOSE m \in
        {MagAdd(low, high) :
            low \in {MagAdd(Mag([i \in 1 .. Limbs |-> (x[i] * k) % Base]),
                            MagShift(Mag([i \in 1 .. Limbs |->
                                            ((x[i] * k) \div Base) % Base])))},
            high \in {MagShift(MagShift(Mag([i \in 1 .. Limbs |->
                                               (x[i] * k) \div (Base * Base)])))}} :
        TRUE

\* Base^e modulo d, for 0 <= e < Limbs
PowMod(e, d) ==
    LET p1 == Base % d
        p2 == (p1 * Base) % d
        p3 == (p2 * Base) % d
        p4 == (p3 * Base) % d
        p5 == (p4 * Base) % d
        p6 == (p5 * Base) % d
    IN  CASE e = 0 -> 1 % d
          [] e = 1 -> p1
          [] e = 2 -> p2
          [] e = 3 -> p3
          [] e = 4 -> p4
          [] e = 5 -> p5
          [] e = 6 -> p6
          [] e = 7 -> (p6 * Base) % d

\* the remainder by d of the limbs of x from i up, as long division leaves it
MagRem(x, d, i) ==
    LET t == [j \in 1 .. Limbs |->
                IF j >= i THEN (x[j] * PowMod(j - i, d)) % d ELSE 0]
    IN  (t[1] + t[2] + t[3] + t[4] + t[5] + t[6] + t[7] + t[8]) % d

\* x \div d for 0 < d <= SmallMax (long division, from the top limb)
MagDiv(x, d) ==
    Mag([i \in 1 .. Limbs |-> (MagRem(x, d, i + 1) * Base + x[i]) \div d])

\* x \div d for a machine integer d > 0 that is at most SmallMax, or that
\* many times 1000 or 1000 * 1000 (each unit constant is): d is divided out
\* in up to three factors
MagQuot(x, d) ==
    LET f1 == IF d > SmallMax THEN 1000 ELSE 1
        f2 == IF d \div 1000 > SmallMax THEN 1000 ELSE 1
    IN  CHOOSE q \in {MagDiv(q2, d \div (f1 * f2)) :
                         q2 \in {MagDiv(q1, f2) : q1 \in {MagDiv(x, f1)}}} : TRUE

Big(negative, magnitude) ==
    [mag |-> magnitude, neg |-> negative /\ magnitude # MagZero]

AbsInt(n) == IF n < 0 THEN -n ELSE n

\* a machine integer of the model as an exact integer
BigOf(n) ==
    Big(n < 0, <<AbsInt(n) % Base, (AbsInt(n) \div Base) % Base,
                 AbsInt(n) \div (Base * Base), 0, 0, 0, 0, 0>>)

BigZero == BigOf(0)

BigNeg(x) == Big(~x.neg, x.mag)

BigAdd(x, y) ==
    IF x.neg = y.neg THEN Big(x.neg, MagAdd(x.mag, y.mag))
    ELSE IF MagCmp(x.mag, y.mag) >= 0 THEN Big(x.neg, MagSub(x.mag, y.mag))
    ELSE Big(y.neg, MagSub(y.mag, x.mag))

BigSub(x, y) == BigAdd(x, BigNeg(y))

BigCmp(x, y) ==
    IF x.neg # y.neg THEN (IF x.neg THEN -1 ELSE 1)
    ELSE IF x.neg THEN MagCmp(y.mag, x.mag)
    ELSE MagCmp(x.mag, y.mag)

BigLt(x, y) == BigCmp(x, y) < 0
BigLe(x, y) == BigCmp(x, y) <= 0

\* x * k for any machine integer k: k is split at Base so each partial
\* product stays a machine integer
BigTimes(x, k) ==
    CHOOSE p \in
        {Big(x.neg # (k < 0), MagAdd(MagShift(high), low)) :
            high \in {MagMul(x.mag, AbsInt(k) \div Base)},
            low \in {MagMul(x.mag, AbsInt(k) % Base)}} : TRUE

\* an exact integer known to lie within the machine range, as one
BigToInt(x) ==
    IF x.neg THEN -(x.mag[1] + x.mag[2] * Base + x.mag[3] * Base * Base)
    ELSE x.mag[1] + x.mag[2] * Base + x.mag[3] * Base * Base

(***************************************************************************)
(* i64: range, Rust's operators / and % (truncating, remainder with the    *)
(* dividend's sign), the checked operations, and the unchecked + and       *)
(* unary -, whose result outside the range panics in a debug build and     *)
(* wraps in a release build: both are recorded (ovf, and the wrapped val). *)
(***************************************************************************)
Two63 == BigTimes(BigTimes(BigOf(32768), 65536 * 256), 65536 * 256)
Two64 == BigTimes(Two63, 2)
I64_MAX == BigSub(Two63, BigOf(1))
I64_MIN == BigNeg(Two63)

InI64(x) == BigLe(I64_MIN, x) /\ BigLe(x, I64_MAX)

\* an exact result within one wrap of the range, reduced modulo 2^64
Wrap(x) ==
    IF BigLt(I64_MAX, x) THEN BigSub(x, Two64)
    ELSE IF BigLt(x, I64_MIN) THEN BigAdd(x, Two64)
    ELSE x

Unchecked(x) == [ovf |-> ~InI64(x), val |-> Wrap(x)]

add_i64(x, y) == CHOOSE u \in {Unchecked(r) : r \in {BigAdd(x, y)}} : TRUE
neg_i64(x) == CHOOSE u \in {Unchecked(r) : r \in {BigNeg(x)}} : TRUE

div_i64(x, d) == CHOOSE q \in {Big(x.neg, m) : m \in {MagQuot(x.mag, d)}} : TRUE
rem_i64(x, d) ==
    CHOOSE r \in {BigSub(x, BigTimes(q, d)) : q \in {div_i64(x, d)}} : TRUE

\* `x as u32` and `n as i64` between an i64 and a nanosecond count
as_u32(x) == BigToInt(x)
as_i64(n) == BigOf(n)

\* Option<T>: <<>> is None, <<v>> is Some(v)
None == <<>>
Some(v) == <<v>>
IsSome(o) == Len(o) = 1
Unwrap(o) == o[1]

\* the exact result r of a checked operation
Checked(r) == IF InI64(r) THEN Some(r) ELSE None

checked_add(x, y) == CHOOSE o \in {Checked(r) : r \in {BigAdd(x, y)}} : TRUE
checked_mul(x, k) == CHOOSE o \in {Checked(r) : r \in {BigTimes(x, k)}} : TRUE

(***************************************************************************)
(* crate::constants (the unit constants both files import).                *)
(***************************************************************************)
SECONDS_IN_MINUTE == 60
SECONDS_IN_HOUR == 3600
SECONDS_IN_DAY == 86400
MILLISECONDS_IN_SECOND == 1000
NANOSECONDS_IN_MILLISECOND == 1000000
NANOSECONDS_IN_SECOND == 1000000000

(***************************************************************************)
(* crate::seconds_nanos, the normalization core both types delegate to:    *)
(* floored division by NANOSECONDS_IN_SECOND, and the checked addition of  *)
(* the carry to the base seconds.  A pair (i64, u32) is a 2-tuple.         *)
(***************************************************************************)
\* the floored quotient and remainder, from the truncated ones
floored(div, rem) ==
    IF rem.neg
    THEN <<BigSub(div, BigOf(1)), as_u32(BigAdd(rem, BigOf(NANOSECONDS_IN_SECOND)))>>
    ELSE <<div, as_u32(rem)>>

carry_and_nanos(nanos) ==
    CHOOSE cn \in {floored(div, rem) :
                      div \in {div_i64(nanos, NANOSECONDS_IN_SECOND)},
                      rem \in {rem_i64(nanos, NANOSECONDS_IN_SECOND)}} : TRUE

seconds_and_nanos(nanoseconds) == carry_and_nanos(nanoseconds)

\* Option::map(|s| (s, nanos))
with_nanos(s, nanos) == IF IsSome(s) THEN Some(<<Unwrap(s), nanos>>) ELSE None

\* the base seconds and the (carry, nanos) pair of the adjustment, combined
combine(base_seconds, cn) ==
    CHOOSE r \in {with_nanos(s, cn[2]) : s \in {checked_add(base_seconds, cn[1])}} :
        TRUE

of_seconds_and_adjustment_checked(secs, nano_adjustment) ==
    CHOOSE r \in {combine(secs, cn) : cn \in {carry_and_nanos(nano_adjustment)}} :
        TRUE

(***************************************************************************)
(* Duration (src/src/duration.rs).                                         *)
(***************************************************************************)
Duration(secs, nanos) == [nanoseconds_of_second |-> nanos, seconds |-> secs]

Duration_MIN == Duration(I64_MIN, 0)
Duration_ZERO == Duration(BigZero, 0)
Duration_MAX == Duration(I64_MAX, NANOSECONDS_IN_SECOND - 1)

nano(self) == self.nanoseconds_of_second
seconds(self) == self.seconds

\* #[derive(Ord)]: lexicographic on (seconds, nanoseconds_of_second)
Duration_ge(x, y) ==
    \/ BigLt(seconds(y), seconds(x))
    \/ /\ seconds(x) = seconds(y)
       /\ nano(x) >= nano(y)

of_seconds(secs) == Duration(secs, 0)

\* Option::map(|total_seconds| Duration::of_seconds(total_seconds))
map_of_seconds(total_seconds) ==
    IF IsSome(total_seconds) THEN Some(of_seconds(Unwrap(total_seconds))) ELSE None

\* a variant whose multiplication wraps where checked_mul reports None
of_days_wrapping(days) ==
    Some(of_seconds(Unchecked(BigTimes(days, SECONDS_IN_DAY)).val))

of_days_checked(days) == map_of_seconds(checked_mul(days, SECONDS_IN_DAY))
of_hours_checked(hours) == map_of_seconds(checked_mul(hours, SECONDS_IN_HOUR))
of_minutes_checked(minutes) == map_of_seconds(checked_mul(minutes, SECONDS_IN_MINUTE))

\* Option::map(|(seconds, nanos)| Duration { seconds, nanoseconds_of_second })
map_Duration(r) ==
    IF IsSome(r) THEN Some(Duration(Unwrap(r)[1], Unwrap(r)[2])) ELSE None

\* a variant that wraps the seconds where the checked addition reports None
of_seconds_and_adjustment_wrapping(secs, nano_adjustment) ==
    CHOOSE r \in {Some(Duration(add_i64(secs, cn[1]).val, cn[2])) :
                     cn \in {carry_and_nanos(nano_adjustment)}} : TRUE

Duration_of_seconds_and_adjustment_checked(secs, nano_adjustment) ==
    CHOOSE d \in {map_Duration(r) :
                     r \in {of_seconds_and_adjustment_checked(secs, nano_adjustment)}} :
        TRUE

\* A value built with unchecked arithmetic: the seconds as the unchecked
\* addition left them (sum), the nanoseconds, and whether an earlier
\* unchecked operation of the call left the range (ovf).
Built(sum, nanos, wrapped) ==
    [nanos |-> nanos, ovf |-> wrapped \/ sum.ovf, val |-> sum.val]

AsDuration(built) == Duration(built.val, built.nanos)

\* a variant that drops the carry of the adjustment (a truncated split)
of_millis_sum_without_carry(secs, adjustment) ==
    CHOOSE built \in {Built(Unchecked(secs), cn[2], adjustment.ovf) :
                         cn \in {carry_and_nanos(adjustment.val)}} : TRUE

\* Duration { seconds: seconds + second_adjustment, nanoseconds_of_second: nanos }
of_millis_sum(secs, adjustment) ==
    CHOOSE built \in {Built(add_i64(secs, cn[1]), cn[2], adjustment.ovf) :
                         cn \in {carry_and_nanos(adjustment.val)}} : TRUE

\* (millis % MILLISECONDS_IN_SECOND) * NANOSECONDS_IN_MILLISECOND, unchecked
of_millis_adjustment(remainder) ==
    CHOOSE u \in {Unchecked(r) :
                     r \in {BigTimes(remainder, NANOSECONDS_IN_MILLISECOND)}} : TRUE

of_millis_built(millis) ==
    CHOOSE built \in
        {of_millis_sum(secs, of_millis_adjustment(remainder)) :
            secs \in {div_i64(millis, MILLISECONDS_IN_SECOND)},
            remainder \in {rem_i64(millis, MILLISECONDS_IN_SECOND)}} : TRUE

of_millis(millis) ==
    CHOOSE d \in {AsDuration(built) : built \in {of_millis_built(millis)}} : TRUE

of_nanos(nanoseconds) ==
    CHOOSE d \in {Duration(sn[1], sn[2]) : sn \in {seconds_and_nanos(nanoseconds)}} :
        TRUE

\* a variant that drops the borrow of the flipped nanoseconds
checked_neg_sum_without_borrow(negated, cn) ==
    Built(Unchecked(negated.val), cn[2], negated.ovf)

\* the last arm of checked_neg: -seconds + adjustment, and flipped_nanos
checked_neg_sum(negated, cn) ==
    Built(add_i64(negated.val, cn[1]), cn[2], negated.ovf)

checked_neg_built(duration) ==
    CHOOSE built \in
        {checked_neg_sum(negated, cn) :
            negated \in {neg_i64(seconds(duration))},
            cn \in {carry_and_nanos(BigNeg(as_i64(nano(duration))))}} : TRUE

\* a variant whose i64::MIN arm is taken for every value but Duration::MIN
checked_neg_unguarded(duration) ==
    IF seconds(duration) = I64_MIN /\ nano(duration) = 0 THEN None
    ELSE Some(Duration(I64_MAX, NANOSECONDS_IN_SECOND - nano(duration)))

checked_neg(duration) ==
    IF seconds(duration) = I64_MIN /\ nano(duration) = 0 THEN None
    ELSE IF seconds(duration) = I64_MIN
    THEN Some(Duration(I64_MAX, NANOSECONDS_IN_SECOND - nano(duration)))
    ELSE CHOOSE r \in {Some(AsDuration(built)) :
                          built \in {checked_neg_built(duration)}} : TRUE

\* whether checked_neg wrapped an unchecked operation (a debug build panics)
checked_neg_ovf(duration) ==
    /\ seconds(duration) # I64_MIN
    /\ checked_neg_built(duration).ovf

\* a variant that negates whatever the sign
abs_always_negating(self) == checked_neg(self)

abs(self) ==
    IF Duration_ge(self, Duration_ZERO) THEN Some(self) ELSE checked_neg(self)

abs_ovf(self) == ~Duration_ge(self, Duration_ZERO) /\ checked_neg_ovf(self)

neg(self) == checked_neg(self)

to_days(self) == div_i64(seconds(self), SECONDS_IN_DAY)
to_hours(self) == div_i64(seconds(self), SECONDS_IN_HOUR)
to_minutes(self) == div_i64(seconds(self), SECONDS_IN_MINUTE)

\* Option::and_then(|result| result.checked_add(y))
and_then_checked_add(result, y) ==
    IF IsSome(result) THEN checked_add(Unwrap(result), y) ELSE None

to_millis(self) ==
    CHOOSE r \in
        {and_then_checked_add(
             result, div_i64(as_i64(nano(self)), NANOSECONDS_IN_MILLISECOND)) :
            result \in {checked_mul(seconds(self), MILLISECONDS_IN_SECOND)}} : TRUE

to_nanos(self) ==
    CHOOSE r \in
        {and_then_checked_add(result, as_i64(nano(self))) :
            result \in {checked_mul(seconds(self), NANOSECONDS_IN_SECOND)}} : TRUE

(***************************************************************************)
(* <Duration as fmt::Display>::fmt.  The text written is a sequence of     *)
(* one-character strings.                                                  *)
(***************************************************************************)
Digit(d) == <<"0", "1", "2", "3", "4", "5", "6", "7", "8", "9">>[d + 1]

\* the decimal digits of 0 <= n < 10^w, zero-padded to w places
Digits(n, w) == [k \in 1 .. w |-> Digit((n \div (10 ^ (w - k))) % 10)]

\* t from its first character that is not "0" (its last one, if all are)
trim_start_0(t) ==
    SubSeq(t,
           IF \A j \in 1 .. Len(t) : t[j] = "0" THEN Len(t)
           ELSE Cardinality({k \in 1 .. Len(t) : \A j \in 1 .. k : t[j] = "0"}) + 1,
           Len(t))

\* <i64 as fmt::Display>::fmt: a sign, then the digits from the first
\* significant one
fmt_i64(x) ==
    (IF x.neg THEN <<"-">> ELSE <<>>)
    \o trim_start_0(Digits(x.mag[8], 4) \o Digits(x.mag[7], 4)
                    \o Digits(x.mag[6], 4) \o Digits(x.mag[5], 4)
                    \o Digits(x.mag[4], 4) \o Digits(x.mag[3], 4)
                    \o Digits(x.mag[2], 4) \o Digits(x.mag[1], 4))

\* str::trim_end_matches('0')
trim_end_matches_0(t) ==
    SubSeq(t, 1,
           Cardinality({k \in 1 .. Len(t) : \E j \in k .. Len(t) : t[j] # "0"}))

\* format!(".{:09}", n) for a u32 n
fmt_09(n) ==
    <<".">> \o (IF n < NANOSECONDS_IN_SECOND THEN Digits(n, 9) ELSE Digits(n, 10))

\* lines 266-273: the pair the fields are taken from
effective_seconds(self) ==
    IF ~seconds(self).neg \/ nano(self) = 0 THEN seconds(self)
    ELSE add_i64(seconds(self), BigOf(1)).val

directed_nanos(self) ==
    IF ~seconds(self).neg \/ nano(self) = 0 THEN nano(self)
    ELSE NANOSECONDS_IN_SECOND - nano(self)

\* lines 276-279 and 282-285: a field written only when it is not zero
fmt_field(value, designator) ==
    IF value # BigZero THEN fmt_i64(value) \o <<designator>> ELSE <<>>

\* a variant that writes the seconds field only for nonzero whole seconds
fmt_seconds_whole_only(remaining_seconds, effective, directed) ==
    IF remaining_seconds # BigZero
    THEN fmt_i64(remaining_seconds)
         \o (IF directed # 0 THEN trim_end_matches_0(fmt_09(directed)) ELSE <<>>)
         \o <<"S">>
    ELSE <<>>

\* lines 288-300: the seconds field
fmt_seconds(remaining_seconds, effective, directed) ==
    IF remaining_seconds # BigZero \/ directed # 0
    THEN (IF remaining_seconds = BigZero /\ effective.neg
          THEN <<"-", "0">>
          ELSE fmt_i64(remaining_seconds))
         \o (IF directed # 0 THEN trim_end_matches_0(fmt_09(directed)) ELSE <<>>)
         \o <<"S">>
    ELSE <<>>

\* lines 264-302, for the effective seconds and the directed nanoseconds
fmt_fields(effective, directed) ==
    CHOOSE t \in
        {<<"P", "T">>
         \o fmt_field(hours, "H")
         \o fmt_field(div_i64(in_hour, SECONDS_IN_MINUTE), "M")
         \o fmt_seconds(remaining_seconds, effective, directed) :
            hours \in {div_i64(effective, SECONDS_IN_HOUR)},
            in_hour \in {rem_i64(effective, SECONDS_IN_HOUR)},
            remaining_seconds \in {rem_i64(effective, SECONDS_IN_MINUTE)}} : TRUE

fmt(self) ==
    IF self = Duration_ZERO THEN <<"P", "T", "0", "S">>
    ELSE CHOOSE t \in {fmt_fields(effective, directed_nanos(self)) :
                          effective \in {effective_seconds(self)}} : TRUE

(***************************************************************************)
(* Instant (src/src/instant.rs).                                           *)
(***************************************************************************)
Instant(epoch_second, nanos) ==
    [epoch_second |-> epoch_second, nanosecond_of_second |-> nanos]

\* Option::map(|(seconds, nanos)| Instant { epoch_second, nanosecond_of_second })
map_Instant(r) ==
    IF IsSome(r) THEN Some(Instant(Unwrap(r)[1], Unwrap(r)[2])) ELSE None

Instant_of_epoch_second_and_adjustment_checked(secs, nano_adjustment) ==
    CHOOSE i \in {map_Instant(r) :
                     r \in {of_seconds_and_adjustment_checked(secs, nano_adjustment)}} :
        TRUE

\* a variant that keeps the whole seconds only
of_epoch_milli_whole_seconds(epoch_milliseconds) ==
    map_Instant(of_seconds_and_adjustment_checked(
        div_i64(epoch_milliseconds, MILLISECONDS_IN_SECOND), BigZero))

of_epoch_milli(epoch_milliseconds) ==
    CHOOSE r \in
        {Instant_of_epoch_second_and_adjustment_checked(
             secs, of_millis_adjustment(remainder).val) :
            secs \in {div_i64(epoch_milliseconds, MILLISECONDS_IN_SECOND)},
            remainder \in {rem_i64(epoch_milliseconds, MILLISECONDS_IN_SECOND)}} :
        TRUE

of_epoch_second_and_adjustment(epoch_seconds, nano_adjustment) ==
    Instant_of_epoch_second_and_adjustment_checked(epoch_seconds, nano_adjustment)

of_epoch_second(epoch_seconds) ==
    of_epoch_second_and_adjustment(epoch_seconds, BigZero)

(***************************************************************************)
(* The callers' inputs.  Every i64 cannot be enumerated: the arguments are *)
(* drawn from the values within Radius of the points where the code's      *)
(* behaviour changes (the ends of the range, the overflow thresholds of    *)
(* each multiplication, zero, whole seconds) and of the documented         *)
(* examples.                                                               *)
(***************************************************************************)
Radius == 1

Near(anchors) ==
    {x \in {BigAdd(c, BigOf(k)) : c \in anchors, k \in -Radius .. Radius} :
        InI64(x)}

UnitAnchors ==
    {I64_MIN, I64_MAX, BigZero, BigOf(1500), BigOf(-1500),
     BigOf(NANOSECONDS_IN_SECOND), BigOf(-NANOSECONDS_IN_SECOND)}
    \cup {div_i64(m, u) : m \in {I64_MIN, I64_MAX},
                          u \in {SECONDS_IN_DAY, SECONDS_IN_HOUR,
                                 SECONDS_IN_MINUTE}}

SecondsAnchors ==
    {I64_MIN, I64_MAX, BigZero, BigOf(-3601), BigOf(29172)}
    \cup {div_i64(m, u) : m \in {I64_MIN, I64_MAX},
                          u \in {MILLISECONDS_IN_SECOND, NANOSECONDS_IN_SECOND}}

AdjustmentAnchors ==
    {I64_MIN, I64_MAX, BigZero, BigOf(700000000),
     BigOf(NANOSECONDS_IN_SECOND), BigOf(-NANOSECONDS_IN_SECOND)}

UnitInputs == Near(UnitAnchors)
SecondsInputs == Near(SecondsAnchors)
AdjustmentInputs == Near(AdjustmentAnchors)

(***************************************************************************)
(* The state: the last call (op), the call before it (from), the integer   *)
(* arguments the value was constructed from (a, b), the receiver of a      *)
(* method call (self), what the call returned (ret: None when it panicked) *)
(* and whether an unchecked i64 operation left the range in it (ovf).      *)
(* Every value is immutable and no call depends on an earlier one, so a    *)
(* behaviour follows one value: it is constructed, then methods are        *)
(* called on it and on the Durations they return.                          *)
(***************************************************************************)
VARIABLES op, from, a, b, self, ret, ovf

vars == <<op, from, a, b, self, ret, ovf>>

DurationOps ==
    {"Duration::MIN", "Duration::ZERO", "Duration::MAX", "of_days", "of_hours",
     "of_minutes", "of_seconds", "of_seconds_and_adjustment", "of_millis",
     "of_nanos", "abs", "neg"}

Init ==
    /\ op = "start"
    /\ from = "start"
    /\ a = BigZero
    /\ b = BigZero
    /\ self = Duration_ZERO
    /\ ret = None
    /\ ovf = FALSE

\* what a constructor or constant leaves: the first call of a behaviour
Constructed(name, x, y, result, wrapped) ==
    /\ ret' = result
    /\ ovf' = wrapped
    /\ op' = name
    /\ from' = "start"
    /\ a' = x
    /\ b' = y
    /\ self' = Duration_ZERO

\* a method is called on the Duration the last call returned
HasDuration == op \in DurationOps /\ IsSome(ret)

Called(name, result, wrapped) ==
    /\ ret' = result
    /\ ovf' = wrapped
    /\ op' = name
    /\ from' = op
    /\ self' = Unwrap(ret)
    /\ UNCHANGED <<a, b>>

Const_MIN ==
    /\ op = "start"
    /\ Constructed("Duration::MIN", BigZero, BigZero, Some(Duration_MIN), FALSE)

Const_ZERO ==
    /\ op = "start"
    /\ Constructed("Duration::ZERO", BigZero, BigZero, Some(Duration_ZERO), FALSE)

Const_MAX ==
    /\ op = "start"
    /\ Constructed("Duration::MAX", BigZero, BigZero, Some(Duration_MAX), FALSE)

Call_of_days ==
    /\ op = "start"
    /\ \E days \in UnitInputs :
        Constructed("of_days", days, BigZero, of_days_checked(days), FALSE)

Call_of_hours ==
    /\ op = "start"
    /\ \E hours \in UnitInputs :
        Constructed("of_hours", hours, BigZero, of_hours_checked(hours), FALSE)

Call_of_minutes ==
    /\ op = "start"
    /\ \E minutes \in UnitInputs :
        Constructed("of_minutes", minutes, BigZero, of_minutes_checked(minutes),
                    FALSE)

Call_of_seconds ==
    /\ op = "start"
    /\ \E s \in SecondsInputs :
        Constructed("of_seconds", s, BigZero, Some(of_seconds(s)), FALSE)

Call_of_seconds_and_adjustment ==
    /\ op = "start"
    /\ \E s \in SecondsInputs, nano_adjustment \in AdjustmentInputs :
        Constructed("of_seconds_and_adjustment", s, nano_adjustment,
                    Duration_of_seconds_and_adjustment_checked(s, nano_adjustment),
                    FALSE)

Call_of_millis ==
    /\ op = "start"
    /\ \E millis \in UnitInputs :
        Constructed("of_millis", millis, BigZero, Some(of_millis(millis)),
                    of_millis_built(millis).ovf)

Call_of_nanos ==
    /\ op = "start"
    /\ \E nanoseconds \in UnitInputs :
        Constructed("of_nanos", nanoseconds, BigZero, Some(of_nanos(nanoseconds)),
                    FALSE)

Call_of_epoch_milli ==
    /\ op = "start"
    /\ \E epoch_milliseconds \in UnitInputs :
        Constructed("of_epoch_milli", epoch_milliseconds, BigZero,
                    of_epoch_milli(epoch_milliseconds), FALSE)

Call_of_epoch_second ==
    /\ op = "start"
    /\ \E epoch_seconds \in SecondsInputs :
        Constructed("of_epoch_second", epoch_seconds, BigZero,
                    of_epoch_second(epoch_seconds), FALSE)

Call_of_epoch_second_and_adjustment ==
    /\ op = "start"
    /\ \E epoch_seconds \in SecondsInputs, nano_adjustment \in AdjustmentInputs :
        Constructed("of_epoch_second_and_adjustment", epoch_seconds,
                    nano_adjustment,
                    of_epoch_second_and_adjustment(epoch_seconds, nano_adjustment),
                    FALSE)

Call_abs ==
    /\ HasDuration
    /\ Called("abs", abs(Unwrap(ret)), abs_ovf(Unwrap(ret)))

Call_neg ==
    /\ HasDuration
    /\ Called("neg", neg(Unwrap(ret)), checked_neg_ovf(Unwrap(ret)))

Call_to_days ==
    /\ HasDuration
    /\ Called("to_days", Some(to_days(Unwrap(ret))), FALSE)

Call_to_hours ==
    /\ HasDuration
    /\ Called("to_hours", Some(to_hours(Unwrap(ret))), FALSE)

Call_to_minutes ==
    /\ HasDuration
    /\ Called("to_minutes", Some(to_minutes(Unwrap(ret))), FALSE)

Call_to_millis ==
    /\ HasDuration
    /\ Called("to_millis", to_millis(Unwrap(ret)), FALSE)

Call_to_nanos ==
    /\ HasDuration
    /\ Called("to_nanos", to_nanos(Unwrap(ret)), FALSE)

Call_to_string ==
    /\ HasDuration
    /\ Called("to_string", Some(fmt(Unwrap(ret))), FALSE)

Next ==
    \/ Const_MIN
    \/ Const_ZERO
    \/ Const_MAX
    \/ Call_of_days
    \/ Call_of_hours
    \/ Call_of_minutes
    \/ Call_of_seconds
    \/ Call_of_seconds_and_adjustment
    \/ Call_of_millis
    \/ Call_of_nanos
    \/ Call_of_epoch_milli
    \/ Call_of_epoch_second
    \/ Call_of_epoch_second_and_adjustment
    \/ Call_abs
    \/ Call_neg
    \/ Call_to_days
    \/ Call_to_hours
    \/ Call_to_minutes
    \/ Call_to_millis
    \/ Call_to_nanos
    \/ Call_to_string

Spec == Init /\ [][Next]_vars

(***************************************************************************)
(* The properties.  Each is stated on the state a call leaves: op is the   *)
(* call, a and b the arguments of the constructor, self the receiver of a  *)
(* method, ret what it returned.                                           *)
(***************************************************************************)
InstantOps == {"of_epoch_milli", "of_epoch_second", "of_epoch_second_and_adjustment"}

NanosRange == 0 .. (NANOSECONDS_IN_SECOND - 1)

\* the exact number of nanoseconds a (seconds, nanos) pair stands for
TotalNanos(d) ==
    CHOOSE n \in {BigAdd(whole, BigOf(nano(d))) :
                     whole \in {BigTimes(seconds(d), NANOSECONDS_IN_SECOND)}} : TRUE

\* floor(x / 10^9): the one q with q * 10^9 <= x < (q + 1) * 10^9
FloorSeconds(x) ==
    CHOOSE q \in {div_i64(x, NANOSECONDS_IN_SECOND),
                  BigSub(div_i64(x, NANOSECONDS_IN_SECOND), BigOf(1))} :
        /\ BigLe(BigTimes(q, NANOSECONDS_IN_SECOND), x)
        /\ BigLt(x, BigTimes(BigAdd(q, BigOf(1)), NANOSECONDS_IN_SECOND))

\* C1: every Duration and every Instant a public operation returns has its
\* nanosecond field in 0 ..= 999_999_999, whatever the sign of the seconds.
C1_NanosInRange ==
    IsSome(ret) =>
        /\ op \in DurationOps => nano(Unwrap(ret)) \in NanosRange
        /\ op \in InstantOps => Unwrap(ret).nanosecond_of_second \in NanosRange

\* a negative count of nanoseconds with a fraction has been normalized, and
\* the value negated
C1_Witness ==
    /\ op = "neg"
    /\ from = "of_nanos"
    /\ a.neg
    /\ nano(self) # 0
    /\ IsSome(ret)
    /\ nano(Unwrap(ret)) # 0

\* C2: negation fails if and only if the value is Duration::MIN; any other
\* value, those with seconds = i64::MIN and nanos # 0 included (they give
\* (i64::MAX, 10^9 - nanos)), is negated with no wrapped intermediate, and
\* the result stands for exactly the negated number of nanoseconds.
C2_NegExact ==
    op = "neg" =>
        /\ ret = None <=> self = Duration_MIN
        /\ IsSome(ret) =>
            /\ ~ovf
            /\ TotalNanos(Unwrap(ret)) = BigNeg(TotalNanos(self))
            /\ nano(Unwrap(ret)) \in NanosRange
        /\ (seconds(self) = I64_MIN /\ nano(self) # 0) =>
            ret = Some(Duration(I64_MAX, NANOSECONDS_IN_SECOND - nano(self)))

\* a value with seconds = i64::MIN and a fraction has been negated
C2_Witness ==
    /\ op = "neg"
    /\ seconds(self) = I64_MIN
    /\ nano(self) # 0
    /\ IsSome(ret)

\* whether the text t holds the integer part "-0" before a fraction
HasNegativeZero(t) ==
    \E k \in 1 .. (Len(t) - 2) : t[k] = "-" /\ t[k + 1] = "0" /\ t[k + 2] = "."

\* C3: whenever the rendered duration is negative with a nonzero fraction
\* and the remaining-seconds field is 0, the integer part of the seconds
\* field is written "-0" (of_seconds_and_adjustment(-1, 700_000_000) is
\* rendered "PT-0.3S").
C3_NegativeZeroWritten ==
    ( /\ op = "to_string"
      /\ seconds(self).neg
      /\ nano(self) # 0
      /\ rem_i64(BigAdd(seconds(self), BigOf(1)), SECONDS_IN_MINUTE) = BigZero )
    => HasNegativeZero(Unwrap(ret))

\* the exact value of the pair in milliseconds
TotalMillis(d) ==
    CHOOSE n \in {BigAdd(whole, BigOf(nano(d) \div NANOSECONDS_IN_MILLISECOND)) :
                     whole \in {BigTimes(seconds(d), MILLISECONDS_IN_SECOND)}} : TRUE

\* what a conversion must return for the exact value v
Converted(v) == IF InI64(v) THEN Some(v) ELSE None

\* C4: to_millis and to_nanos fail exactly when the exact value of the
\* stored pair in that unit is outside the i64 range, and return it
\* otherwise; in particular of_nanos(n).to_nanos() = n and
\* of_millis(m).to_millis() = m for every i64 n and m.
C4_ConversionExact ==
    /\ op = "to_millis" => ret = Converted(TotalMillis(self))
    /\ op = "to_nanos" => ret = Converted(TotalNanos(self))
    /\ (op = "to_millis" /\ from = "of_millis") => ret = Some(a)
    /\ (op = "to_nanos" /\ from = "of_nanos") => ret = Some(a)

\* C5: of_seconds_and_adjustment fails if and only if
\* seconds + floor(nano_adjustment / 10^9) is outside the i64 range, and
\* otherwise returns exactly that sum with the floored, non-negative
\* remainder; the seconds are never wrapped or saturated.
C5_AdjustmentExact ==
    op = "of_seconds_and_adjustment" =>
        IF InI64(BigAdd(a, FloorSeconds(b)))
        THEN ret = Some(Duration(
                 BigAdd(a, FloorSeconds(b)),
                 BigToInt(BigSub(b, BigTimes(FloorSeconds(b),
                                             NANOSECONDS_IN_SECOND)))))
        ELSE ret = None

\* the carry of a negative adjustment has taken the seconds below i64::MIN
C5_Witness ==
    /\ op = "of_seconds_and_adjustment"
    /\ b.neg
    /\ BigLt(BigAdd(a, FloorSeconds(b)), I64_MIN)
    /\ ret = None

\* C6: of_millis never fails and never overflows its unchecked addition; it
\* returns the floored split of the milliseconds: a nanosecond field in
\* range, a multiple of 10^6, and a pair that stands for exactly
\* millis * 10^6 nanoseconds (of_millis(-1500) is (-2, 500_000_000)).
C6_MillisFloored ==
    op = "of_millis" =>
        /\ IsSome(ret)
        /\ ~ovf
        /\ nano(Unwrap(ret)) \in NanosRange
        /\ nano(Unwrap(ret)) % NANOSECONDS_IN_MILLISECOND = 0
        /\ TotalNanos(Unwrap(ret)) = BigTimes(a, NANOSECONDS_IN_MILLISECOND)
        /\ a = BigOf(-1500) => Unwrap(ret) = Duration(BigOf(-2), 500000000)

\* a negative count of milliseconds with a fraction of a second was split
C6_Witness ==
    /\ op = "of_millis"
    /\ a.neg
    /\ IsSome(ret)
    /\ nano(Unwrap(ret)) # 0

\* C7: abs fails if and only if the value is Duration::MIN; otherwise the
\* result is >= ZERO, is the value itself when that is >= ZERO and its
\* exact negation when it is not, and abs leaves the result as it is.
C7_AbsExact ==
    op = "abs" =>
        /\ ret = None <=> self = Duration_MIN
        /\ IsSome(ret) =>
            /\ ~ovf
            /\ Duration_ge(Unwrap(ret), Duration_ZERO)
            /\ Duration_ge(self, Duration_ZERO) => Unwrap(ret) = self
            /\ ~Duration_ge(self, Duration_ZERO) =>
                TotalNanos(Unwrap(ret)) = BigNeg(TotalNanos(self))
            /\ nano(Unwrap(ret)) \in NanosRange
            /\ abs(Unwrap(ret)) = ret

\* abs has negated a negative value with a fraction
C7_Witness ==
    /\ op = "abs"
    /\ seconds(self).neg
    /\ nano(self) # 0
    /\ IsSome(ret)
    /\ Unwrap(ret) # self

\* the seconds in one of the unit a constructor or conversion is named for
UnitOf(name) ==
    CASE name \in {"of_days", "to_days"} -> SECONDS_IN_DAY
      [] name \in {"of_hours", "to_hours"} -> SECONDS_IN_HOUR
      [] name \in {"of_minutes", "to_minutes"} -> SECONDS_IN_MINUTE

\* C8: of_days(n) (of_hours, of_minutes) fails if and only if n * 86400
\* (n * 3600, n * 60) is outside the i64 range; when it succeeds the result
\* is that many seconds with nanos = 0, and to_days (to_hours, to_minutes)
\* of it gives n back.
C8_UnitRoundTrip ==
    /\ op \in {"of_days", "of_hours", "of_minutes"} =>
        /\ ret = None <=> ~InI64(BigTimes(a, UnitOf(op)))
        /\ IsSome(ret) => Unwrap(ret) = Duration(BigTimes(a, UnitOf(op)), 0)
    /\ (op = "to_days" /\ from = "of_days") => ret = Some(a)
    /\ (op = "to_hours" /\ from = "of_hours") => ret = Some(a)
    /\ (op = "to_minutes" /\ from = "of_minutes") => ret = Some(a)

\* a negative number of days has been converted back
C8_Witness ==
    /\ op = "to_days"
    /\ from = "of_days"
    /\ a.neg
    /\ seconds(self) = BigTimes(a, SECONDS_IN_DAY)
    /\ ret = Some(a)

\* C9: Instant::of_epoch_milli always succeeds, and its
\* (epoch_second, nano) pair is the (seconds, nano) pair of
\* Duration::of_millis of the same count.
C9_EpochMilliAsOfMillis ==
    op = "of_epoch_milli" =>
        /\ IsSome(ret)
        /\ Unwrap(ret).epoch_second = seconds(of_millis(a))
        /\ Unwrap(ret).nanosecond_of_second = nano(of_millis(a))

\* a negative count with a fraction of a second, where the carry is -1
C9_Witness ==
    /\ op = "of_epoch_milli"
    /\ a.neg
    /\ IsSome(ret)
    /\ Unwrap(ret).nanosecond_of_second # 0
    /\ Unwrap(ret).epoch_second
         = BigSub(div_i64(a, MILLISECONDS_IN_SECOND), BigOf(1))

\* the whole seconds of a value, truncated toward zero
WholeSeconds(d) ==
    IF seconds(d).neg /\ nano(d) # 0 THEN BigAdd(seconds(d), BigOf(1))
    ELSE seconds(d)

\* how often the character c is written in t
Count(t, c) == Cardinality({k \in 1 .. Len(t) : t[k] = c})

\* the place of the one c in t, 0 when there is none
Place(t, c) == IF Count(t, c) = 0 THEN 0 ELSE CHOOSE k \in 1 .. Len(t) : t[k] = c

\* exactly the designators in want (a sequence of booleans for H, M, S) are
\* written in t, each once and in this order, the last one ending the text
FieldsWritten(t, want) ==
    /\ Count(t, "H") = (IF want[1] THEN 1 ELSE 0)
    /\ Count(t, "M") = (IF want[2] THEN 1 ELSE 0)
    /\ Count(t, "S") = (IF want[3] THEN 1 ELSE 0)
    /\ (want[1] /\ want[2]) => Place(t, "H") < Place(t, "M")
    /\ (want[2] /\ want[3]) => Place(t, "M") < Place(t, "S")
    /\ (want[1] /\ want[3]) => Place(t, "H") < Place(t, "S")
    /\ (want[1] \/ want[2] \/ want[3]) /\ t[Len(t)] \in {"H", "M", "S"}
    /\ \A c \in {"H", "M", "S"} : Place(t, c) # 3

\* C10: a rendering is never the bare "PT": Duration::ZERO is written
\* "PT0S", and a nonzero value as "PT" followed by at least one of the
\* fields H, M, S in that order, H and M written only when not zero and S
\* only when the remaining seconds or the nanoseconds are not zero.
C10_NeverBarePT ==
    op = "to_string" =>
        /\ Len(Unwrap(ret)) > 2
        /\ SubSeq(Unwrap(ret), 1, 2) = <<"P", "T">>
        /\ self = Duration_ZERO => Unwrap(ret) = <<"P", "T", "0", "S">>
        /\ self # Duration_ZERO =>
            FieldsWritten(Unwrap(ret),
                <<div_i64(WholeSeconds(self), SECONDS_IN_HOUR) # BigZero,
                  div_i64(rem_i64(WholeSeconds(self), SECONDS_IN_HOUR),
                          SECONDS_IN_MINUTE) # BigZero,
                  rem_i64(WholeSeconds(self), SECONDS_IN_MINUTE) # BigZero
                    \/ nano(self) # 0>>)

\* a value with seconds = -1 and a fraction was rendered with the S field only
C10_Witness ==
    /\ op = "to_string"
    /\ seconds(self) = BigOf(-1)
    /\ nano(self) # 0
    /\ Count(Unwrap(ret), "S") = 1
    /\ Count(Unwrap(ret), "H") = 0
    /\ Count(Unwrap(ret), "M") = 0

=============================================================================
